---------------------------- MODULE Spec2Model ----------------------------
(***************************************************************************)
(* Model of employee-insights-api (src/employee-insights-api/src/lib.rs): *)
(* five JSON handlers that run fixed read queries against the D1 table     *)
(* insight_summary and wrap the rows in an ApiResponse envelope.           *)
(*                                                                         *)
(* Conventions of the model                                                *)
(*   - a word is a sequence of one-character strings;                      *)
(*   - a stored percentage (f64) is an integer number of hundredths of a   *)
(*     percent (80.0 is 8000), a computed ratio likewise, with a flag for  *)
(*     NaN; ratios are computed over exact rationals;                      *)
(*   - an SQL integer (i64) is a little-endian sequence of base-2^15       *)
(*     digits, so that sums beyond 2^31 - 1 can be represented;            *)
(*   - an ORDER BY leaves the order of rows with equal keys open: a query  *)
(*     yields the set of all row sequences the ordering admits, and the    *)
(*     handler takes any one of them.                                      *)
(***************************************************************************)
EXTENDS Integers, Sequences, FiniteSets, TLC

VARIABLES
    table,            \* insight_summary: the rows, in insertion order
    pc,               \* "idle", the next sub-query of a dashboard request, or "done"
    req,              \* the request being served
    dash,             \* locals of get_dashboard_stats
    resp,             \* what the handler returned
    queries,          \* statements sent to the store by this request, each with the table it ran on
    history           \* the table states since the request in flight began, oldest first

vars == <<table, pc, req, dash, resp, queries, history>>

---------------------------------------------------------------------------
(* Bounds of the model *)

MaxRows == 3
MaxSeed == 23
MaxWordLen == 2
MaxConcRows == 2
MaxInflightWrites == 1

(* Constants of the program *)

MaxI32 == 2147483647
Threshold == 70
DashTopLimit == 5
TopLimit == 10
SampleLimit == 20
BadRequest == 400
OkStatus == 200

---------------------------------------------------------------------------
(* Words *)

Alphabet == {"a", "b", "A", "%", "_"}

RECURSIVE WordsUpTo(_)
WordsUpTo(n) ==
    IF n = 0 THEN {<< >>}
    ELSE LET shorter == WordsUpTo(n - 1)
         IN  shorter \cup {Append(w, c) : w \in shorter, c \in Alphabet}

NoWord == [some |-> FALSE, val |-> << >>]

SomeWord(w) == [some |-> TRUE, val |-> w]

WordParams == {NoWord} \cup {SomeWord(w) : w \in WordsUpTo(MaxWordLen)}

---------------------------------------------------------------------------
(* InsightSummary rows *)

Pct(count, total) ==
    IF total = 0 THEN 0
    ELSE IF count = total THEN 10000
    ELSE (count * 10000) \div total

Payload(word, pos, neg, neu) ==
    [word_insight |-> word,
     total_count |-> pos + neg + neu,
     positif_count |-> pos,
     negatif_count |-> neg,
     netral_count |-> neu,
     positif_percentage |-> Pct(pos, pos + neg + neu),
     negatif_percentage |-> Pct(neg, pos + neg + neu),
     netral_percentage |-> Pct(neu, pos + neg + neu),
     created_at |-> "2024-01-01 00:00:00"]

Great == Payload(<<"a", "b">>, 80, 10, 10)
Bad == Payload(<<"b", "a">>, 5, 40, 5)
Unrated == Payload(<<"A">>, 0, 0, 0)
Borderline == Payload(<<"a", "_">>, 7, 3, 0)
Huge == Payload(<<"b">>, 1073741824, 0, 0)
Praise == Payload(<<"%", "b">>, 80, 10, 10)
Thirds == Payload(<<"b", "b">>, 1, 1, 1)

Payloads == {Great, Bad, Unrated, Borderline, Huge, Praise, Thirds}

ConcPayloads == {Great, Bad}

WithId(p, i) ==
    [id |-> i,
     word_insight |-> p.word_insight,
     total_count |-> p.total_count,
     positif_count |-> p.positif_count,
     negatif_count |-> p.negatif_count,
     netral_count |-> p.netral_count,
     positif_percentage |-> p.positif_percentage,
     negatif_percentage |-> p.negatif_percentage,
     netral_percentage |-> p.netral_percentage,
     created_at |-> p.created_at]

(* Row i of a pre-populated table: odd rows lean positive, even rows lean  *)
(* negative; the leaning percentage runs over 70, 75, 80, 85, 90 with the  *)
(* stride; total_count grows with i, rows i and i - 2 being equal in every *)
(* fourth pair.                                                            *)
SeedRow(i, stride) ==
    LET total == 20 * (IF i % 8 \in {3, 4} THEN i - 2 ELSE i)
        lean == (total * (70 + 5 * ((i * stride + 1) % 5))) \div 100
        rest == total - lean
        p == IF i % 2 = 1
             THEN Payload(<<"a">>, lean, rest \div 2, rest - rest \div 2)
             ELSE Payload(<<"b">>, rest \div 2, lean, rest - rest \div 2)
    IN  WithId(p, i)

Seed(n, stride) == [i \in 1..n |-> SeedRow(i, stride)]

(* the tables a behaviour may start from: the empty table, which ingestion *)
(* then fills, and pre-populated tables too large for ingestion to touch  *)
Seeds == {<< >>} \cup {Seed(n, stride) : n \in (MaxRows + 1)..MaxSeed, stride \in 0..4}

Rows(t) == {t[i] : i \in DOMAIN t}

---------------------------------------------------------------------------
(* SQL integers (i64) and the casts applied to them *)

Base == 2^15

BigZero == <<0, 0, 0, 0>>

ToBig(v) == <<v % Base, (v \div Base) % Base, v \div (Base * Base), 0>>

BigAdd(a, b) ==
    LET s1 == a[1] + b[1]
        s2 == a[2] + b[2] + s1 \div Base
        s3 == a[3] + b[3] + s2 \div Base
        s4 == a[4] + b[4] + s3 \div Base
    IN  <<s1 % Base, s2 % Base, s3 % Base, s4>>

BigMulSmall(a, k) ==
    LET p1 == a[1] * k
        p2 == a[2] * k + p1 \div Base
        p3 == a[3] * k + p2 \div Base
        p4 == a[4] * k + p3 \div Base
    IN  <<p1 % Base, p2 % Base, p3 % Base, p4>>

BigLeq(a, b) ==
    \/ a[4] < b[4]
    \/ a[4] = b[4] /\ a[3] < b[3]
    \/ a[4] = b[4] /\ a[3] = b[3] /\ a[2] < b[2]
    \/ a[4] = b[4] /\ a[3] = b[3] /\ a[2] = b[2] /\ a[1] <= b[1]

(* `as i32` of an i64: the low 32 bits, read as two's complement *)
WrapI32(a) ==
    LET low30 == a[1] + a[2] * Base
        bits == a[3] % 4
    IN  IF bits < 2 THEN low30 + bits * (Base * Base)
        ELSE ((low30 + (bits - 2) * (Base * Base)) - MaxI32) - 1

SqlNull == [null |-> TRUE, int |-> BigZero]

SqlInt(b) == [null |-> FALSE, int |-> b]

(* f64 values of the response: NaN, or a number of hundredths *)
NaN == [nan |-> TRUE, hundredths |-> 0]

Finite(h) == [nan |-> FALSE, hundredths |-> h]

Scale == 100 * 100

(* the largest q in lo..hi with q * d <= n *)
RECURSIVE FloorDiv(_, _, _, _)
FloorDiv(n, d, lo, hi) ==
    IF lo = hi THEN lo
    ELSE LET mid == (lo + hi + 1) \div 2
         IN  IF BigLeq(BigMulSmall(d, mid), n)
             THEN FloorDiv(n, d, mid, hi)
             ELSE FloorDiv(n, d, lo, mid - 1)

(* Ratio with the fraction cut off instead of rounded *)
RatioTruncated(x, total_all) ==
    IF total_all = BigZero THEN NaN
    ELSE Finite(FloorDiv(BigMulSmall(x, Scale), total_all, 0, Scale))

(* (x / total_all * 100.0 * 100.0).round() / 100.0 for 0 <= x <= total_all: *)
(* 0/0 is NaN, and NaN.round() / 100.0 is NaN; round() rounds half away    *)
(* from zero, floor(v + 1/2) for v >= 0.                                   *)
Ratio(x, total_all) ==
    IF total_all = BigZero THEN NaN
    ELSE Finite(FloorDiv(BigAdd(BigMulSmall(x, 2 * Scale), total_all),
                         BigMulSmall(total_all, 2), 0, Scale))

---------------------------------------------------------------------------
(* The queries *)

CountAll(t) == SqlInt(ToBig(Len(t)))

RECURSIVE BigSum(_, _, _)
BigSum(t, col, n) ==
    IF n = 0 THEN BigZero
    ELSE BigAdd(BigSum(t, col, n - 1), ToBig(t[n][col]))

(* SumTotalCount summing another column *)
SumPositifCount(t) ==
    IF Len(t) = 0 THEN [null |-> TRUE, int |-> <<0, 0, 0, 0>>]
    ELSE [null |-> FALSE, int |-> BigSum(t, "positif_count", Len(t))]

(* SUM(col): NULL over no rows *)
SumColumn(t, col) ==
    IF Len(t) = 0 THEN SqlNull ELSE SqlInt(BigSum(t, col, Len(t)))

SumTotalCount(t) == SumColumn(t, "total_count")

SumByCategory(t) ==
    [pos |-> SumColumn(t, "positif_count"),
     neg |-> SumColumn(t, "negatif_count"),
     neu |-> SumColumn(t, "netral_count")]

PctOf(order, r) ==
    IF order = "positif" THEN r.positif_percentage ELSE r.negatif_percentage

(* ORDER BY total_count DESC, or ORDER BY <pct> DESC, total_count DESC *)
RankAbove(order, a, b) ==
    IF order = "total" THEN a.total_count > b.total_count
    ELSE \/ PctOf(order, a) > PctOf(order, b)
         \/ PctOf(order, a) = PctOf(order, b) /\ a.total_count > b.total_count

(* Qualifies with >= for > *)
QualifiesAtLeast(order, r) ==
    (IF order = "positif" THEN r.positif_percentage ELSE r.negatif_percentage)
        >= Threshold * 100

(* WHERE <pct> > 70 *)
Qualifies(order, r) == PctOf(order, r) > Threshold * 100

First(S, order) == {r \in S : \A q \in S : ~RankAbove(order, q, r)}

(* every sequence ORDER BY ... LIMIT limit may return for the rows S *)
RECURSIVE Orderings(_, _, _)
Orderings(S, order, limit) ==
    IF S = {} \/ limit = 0 THEN {<< >>}
    ELSE UNION {{<<r>> \o rest : rest \in Orderings(S \ {r}, order, limit - 1)} :
                r \in First(S, order)}

ListAll(t) == Orderings(Rows(t), "total", Len(t))

TopByPercentage(t, order, limit) ==
    Orderings({r \in Rows(t) : Qualifies(order, r)}, order, limit)

(* SampleOrderedByTotal without its ORDER BY: the rows as stored *)
SampleAsStored(t, limit) ==
    {SubSeq(t, 1, IF Len(t) < limit THEN Len(t) ELSE limit)}

SampleOrderedByTotal(t, limit) == Orderings(Rows(t), "total", limit)

(* LIKE of SQLite: % matches any run of characters, _ any one character,   *)
(* any other character itself, ASCII letters without regard to case.       *)
Fold(c) == IF c = "A" THEN "a" ELSE c

RECURSIVE Like(_, _)
Like(pattern, s) ==
    IF pattern = << >> THEN s = << >>
    ELSE IF Head(pattern) = "%"
         THEN Like(Tail(pattern), s) \/ (s # << >> /\ Like(pattern, Tail(s)))
    ELSE /\ s # << >>
         /\ Head(pattern) = "_" \/ Fold(Head(pattern)) = Fold(Head(s))
         /\ Like(Tail(pattern), Tail(s))

(* format!("%{}%", word) *)
SearchTerm(word) == <<"%">> \o word \o <<"%">>

SearchByWord(t, term) ==
    Orderings({r \in Rows(t) : Like(term, r.word_insight)}, "total", Len(t))

---------------------------------------------------------------------------
(* Requests, responses *)

NoReq == [handler |-> "none", word |-> NoWord]

Request(h, w) == [handler |-> h, word |-> w]

(* DashboardStats; also the locals of get_dashboard_stats while it runs *)
NoStats ==
    [total_insights |-> 0,
     total_feedback |-> 0,
     positive_ratio |-> Finite(0),
     negative_ratio |-> Finite(0),
     neutral_ratio |-> Finite(0),
     top_positive_insights |-> << >>,
     top_negative_insights |-> << >>,
     all_insights |-> << >>]

NoResp ==
    [result |-> "none", status |-> 0, success |-> FALSE, data |-> << >>,
     stats |-> NoStats, message |-> "", arg |-> << >>, error |-> ""]

(* Ok(Response::from_json(&ApiResponse { success, data, message })) *)
Envelope(status, success, data, stats, message, arg) ==
    [result |-> "Ok", status |-> status, success |-> success, data |-> data,
     stats |-> stats, message |-> message, arg |-> arg, error |-> ""]

(* Err(e) out of a `?`: the handler builds no Response, hence no status  *)
(* and no envelope; `error` keeps the kind of the repository failure      *)
Failure(kind) == [NoResp EXCEPT !.result = "Err", !.error = kind]

(* unwrap() of None: the handler panics *)
Panicked == [NoResp EXCEPT !.result = "Panic", !.error = "unwrap on None"]

Sent(stmt) == [stmt |-> stmt, seen |-> table]

Returns(r) == resp' = r /\ pc' = "done"

---------------------------------------------------------------------------
(* The handlers *)

get_insights_summary ==
    /\ pc = "idle"
    /\ req' = Request("summary", NoWord)
    /\ \/ Returns(Failure("ConnectionFailure")) /\ queries' = << >>
       \/ Returns(Failure("QueryFailure")) /\ queries' = <<Sent("list_all")>>
       \/ Returns(Failure("DecodeFailure")) /\ queries' = <<Sent("list_all")>>
       \/ /\ \E insights \in ListAll(table) :
                Returns(Envelope(OkStatus, TRUE, insights, NoStats,
                                 "Successfully retrieved all insights summary", << >>))
          /\ queries' = <<Sent("list_all")>>
    /\ history' = <<table>>
    /\ UNCHANGED <<table, dash>>

(* get_dashboard_stats, one action per awaited statement.  A row count is  *)
(* never NULL, so the unwraps of the first statement cannot fail; a SUM   *)
(* is NULL over no rows, and as_i64().unwrap() then panics.               *)
dashboard_count ==
    /\ pc = "idle"
    /\ req' = Request("dashboard", NoWord)
    /\ \/ Returns(Failure("ConnectionFailure")) /\ queries' = << >> /\ dash' = dash
       \/ Returns(Failure("QueryFailure")) /\ queries' = <<Sent("count")>> /\ dash' = dash
       \/ /\ queries' = <<Sent("count")>>
          /\ dash' = [NoStats EXCEPT !.total_insights = WrapI32(CountAll(table).int)]
          /\ pc' = "feedback"
          /\ resp' = resp
    /\ history' = <<table>>
    /\ UNCHANGED table

dashboard_feedback ==
    /\ pc = "feedback"
    /\ queries' = Append(queries, Sent("sum_total"))
    /\ \/ Returns(Failure("QueryFailure")) /\ dash' = dash
       \/ LET total == SumTotalCount(table)
          IN  IF total.null
              THEN Returns(Panicked) /\ dash' = dash
              ELSE /\ dash' = [dash EXCEPT !.total_feedback = WrapI32(total.int)]
                   /\ pc' = "sentiment"
                   /\ resp' = resp
    /\ UNCHANGED <<table, req, history>>

dashboard_sentiment ==
    /\ pc = "sentiment"
    /\ queries' = Append(queries, Sent("sum_category"))
    /\ \/ Returns(Failure("QueryFailure")) /\ dash' = dash
       \/ LET sums == SumByCategory(table)
              total_all == BigAdd(BigAdd(sums.pos.int, sums.neg.int), sums.neu.int)
          IN  IF sums.pos.null \/ sums.neg.null \/ sums.neu.null
              THEN Returns(Panicked) /\ dash' = dash
              ELSE /\ dash' = [dash EXCEPT
                          !.positive_ratio = Ratio(sums.pos.int, total_all),
                          !.negative_ratio = Ratio(sums.neg.int, total_all),
                          !.neutral_ratio = Ratio(sums.neu.int, total_all)]
                   /\ pc' = "top_positive"
                   /\ resp' = resp
    /\ UNCHANGED <<table, req, history>>

dashboard_top_positive ==
    /\ pc = "top_positive"
    /\ queries' = Append(queries, Sent("top_positive"))
    /\ \/ Returns(Failure("QueryFailure")) /\ dash' = dash
       \/ Returns(Failure("DecodeFailure")) /\ dash' = dash
       \/ \E top \in TopByPercentage(table, "positif", DashTopLimit) :
             /\ dash' = [dash EXCEPT !.top_positive_insights = top]
             /\ pc' = "top_negative"
             /\ resp' = resp
    /\ UNCHANGED <<table, req, history>>

dashboard_top_negative ==
    /\ pc = "top_negative"
    /\ queries' = Append(queries, Sent("top_negative"))
    /\ \/ Returns(Failure("QueryFailure")) /\ dash' = dash
       \/ Returns(Failure("DecodeFailure")) /\ dash' = dash
       \/ \E top \in TopByPercentage(table, "negatif", DashTopLimit) :
             /\ dash' = [dash EXCEPT !.top_negative_insights = top]
             /\ pc' = "all"
             /\ resp' = resp
    /\ UNCHANGED <<table, req, history>>

dashboard_all ==
    /\ pc = "all"
    /\ queries' = Append(queries, Sent("sample"))
    /\ \/ Returns(Failure("QueryFailure")) /\ dash' = dash
       \/ Returns(Failure("DecodeFailure")) /\ dash' = dash
       \/ \E all \in SampleOrderedByTotal(table, SampleLimit) :
             /\ dash' = [dash EXCEPT !.all_insights = all]
             /\ Returns(Envelope(OkStatus, TRUE, << >>, dash',
                                 "Successfully retrieved dashboard statistics", << >>))
    /\ UNCHANGED <<table, req, history>>

get_top_positive ==
    /\ pc = "idle"
    /\ req' = Request("top_positive", NoWord)
    /\ \/ Returns(Failure("ConnectionFailure")) /\ queries' = << >>
       \/ Returns(Failure("QueryFailure")) /\ queries' = <<Sent("top_positive")>>
       \/ Returns(Failure("DecodeFailure")) /\ queries' = <<Sent("top_positive")>>
       \/ /\ \E insights \in TopByPercentage(table, "positif", TopLimit) :
                Returns(Envelope(OkStatus, TRUE, insights, NoStats,
                                 "Successfully retrieved top positive insights", << >>))
          /\ queries' = <<Sent("top_positive")>>
    /\ history' = <<table>>
    /\ UNCHANGED <<table, dash>>

get_top_negative ==
    /\ pc = "idle"
    /\ req' = Request("top_negative", NoWord)
    /\ \/ Returns(Failure("ConnectionFailure")) /\ queries' = << >>
       \/ Returns(Failure("QueryFailure")) /\ queries' = <<Sent("top_negative")>>
       \/ Returns(Failure("DecodeFailure")) /\ queries' = <<Sent("top_negative")>>
       \/ /\ \E insights \in TopByPercentage(table, "negatif", TopLimit) :
                Returns(Envelope(OkStatus, TRUE, insights, NoStats,
                                 "Successfully retrieved top negative insights", << >>))
          /\ queries' = <<Sent("top_negative")>>
    /\ history' = <<table>>
    /\ UNCHANGED <<table, dash>>

get_insight_by_word ==
    /\ pc = "idle"
    /\ \E param \in WordParams :
          /\ req' = Request("by_word", param)
          /\ \/ Returns(Failure("ConnectionFailure")) /\ queries' = << >>
             \/ /\ param.some
                /\ queries' = <<Sent("search")>>
                /\ \/ Returns(Failure("QueryFailure"))
                   \/ Returns(Failure("DecodeFailure"))
                   \/ \E insights \in SearchByWord(table, SearchTerm(param.val)) :
                         Returns(Envelope(OkStatus, TRUE, insights, NoStats,
                                          "Successfully retrieved insights for '{}'",
                                          param.val))
             \/ /\ ~param.some
                /\ queries' = << >>
                /\ Returns(Envelope(BadRequest, FALSE, << >>, NoStats,
                                    "Word parameter is required", << >>))
    /\ history' = <<table>>
    /\ UNCHANGED <<table, dash>>

(* the response leaves; the next request starts from scratch *)
Deliver ==
    /\ pc = "done"
    /\ pc' = "idle"
    /\ req' = NoReq
    /\ dash' = NoStats
    /\ resp' = NoResp
    /\ queries' = << >>
    /\ history' = << >>
    /\ UNCHANGED table

---------------------------------------------------------------------------
(* The external ingestion process: the only writer of the table *)

Ingest(payloads, cap) ==
    /\ \/ /\ Len(table) < cap
          /\ \E p \in payloads : table' = Append(table, WithId(p, Len(table) + 1))
       \/ /\ Len(table) <= cap
          /\ \E i \in DOMAIN table, p \in payloads :
                /\ table[i] # WithId(p, i)
                /\ table' = [table EXCEPT ![i] = WithId(p, i)]
    /\ history' = IF pc = "idle" THEN << >> ELSE Append(history, table')
    /\ UNCHANGED <<pc, req, dash, resp, queries>>

(* ingestion between requests *)
IngestIdle == pc = "idle" /\ Ingest(Payloads, MaxRows)

(* ingestion at any moment, also between the sub-queries of a request *)
IngestConcurrent ==
    /\ pc # "done"
    /\ pc = "idle" \/ Len(history) <= MaxInflightWrites
    /\ Ingest(ConcPayloads, MaxConcRows)

---------------------------------------------------------------------------
(* Specifications *)

Init ==
    /\ table \in Seeds
    /\ pc = "idle"
    /\ req = NoReq
    /\ dash = NoStats
    /\ resp = NoResp
    /\ queries = << >>
    /\ history = << >>

get_dashboard_stats ==
    \/ dashboard_count
    \/ dashboard_feedback
    \/ dashboard_sentiment
    \/ dashboard_top_positive
    \/ dashboard_top_negative
    \/ dashboard_all

Next ==
    \/ get_insights_summary
    \/ get_dashboard_stats
    \/ get_top_positive
    \/ get_top_negative
    \/ get_insight_by_word
    \/ Deliver
    \/ IngestIdle

Spec == Init /\ [][Next]_vars

InitConc == Init /\ table = << >>

NextConc ==
    \/ get_dashboard_stats
    \/ Deliver
    \/ IngestConcurrent

SpecConc == InitConc /\ [][NextConc]_vars

(* the handlers that take no parameter, with ingestion between requests *)
NextAggregate ==
    \/ get_insights_summary
    \/ get_dashboard_stats
    \/ get_top_positive
    \/ get_top_negative
    \/ Deliver
    \/ IngestIdle

SpecAggregate == Init /\ [][NextAggregate]_vars

---------------------------------------------------------------------------
(* Vocabulary of the properties.  These definitions state what a response  *)
(* should be in terms of the table alone; none of them is used by the      *)
(* handlers.                                                               *)

RepositoryErrors == {"ConnectionFailure", "QueryFailure", "DecodeFailure"}

(* the handler h has returned *)
Done(h) == pc = "done" /\ req.handler = h

(* the handler h has returned and no repository call of it failed *)
Answered(h) == Done(h) /\ resp.error \notin RepositoryErrors

Range(seq) == {seq[i] : i \in DOMAIN seq}

Min(a, b) == IF a <= b THEN a ELSE b

NoRepeats(seq) == \A i, j \in DOMAIN seq : i # j => seq[i] # seq[j]

RECURSIVE ExactSum(_, _, _)
ExactSum(t, col, n) ==
    IF n = 0 THEN BigZero
    ELSE BigAdd(ToBig(t[n][col]), ExactSum(t, col, n - 1))

ColumnTotal(t, col) == ExactSum(t, col, Len(t))

Grand(t) ==
    BigAdd(ColumnTotal(t, "positif_count"),
           BigAdd(ColumnTotal(t, "negatif_count"), ColumnTotal(t, "netral_count")))

(* q hundredths is x / g as a percentage, rounded to the nearest hundredth, *)
(* a half rounded up: 2qg <= 20000x + g < 2(q + 1)g                         *)
IsRounded(q, x, g) ==
    LET n == BigAdd(BigMulSmall(x, 20000), g)
    IN  /\ BigLeq(BigMulSmall(BigMulSmall(g, 2), q), n)
        /\ ~BigLeq(BigMulSmall(BigMulSmall(g, 2), q + 1), n)

IsRatioOf(ratio, x, g) ==
    ~ratio.nan /\ ratio.hundredths \in 0..10000 /\ IsRounded(ratio.hundredths, x, g)

IsZero(ratio) == ~ratio.nan /\ ratio.hundredths = 0

RatiosDescribe(stats, t) ==
    IF Grand(t) = BigZero
    THEN IsZero(stats.positive_ratio) /\ IsZero(stats.negative_ratio)
         /\ IsZero(stats.neutral_ratio)
    ELSE /\ IsRatioOf(stats.positive_ratio, ColumnTotal(t, "positif_count"), Grand(t))
         /\ IsRatioOf(stats.negative_ratio, ColumnTotal(t, "negatif_count"), Grand(t))
         /\ IsRatioOf(stats.neutral_ratio, ColumnTotal(t, "netral_count"), Grand(t))

RatioSum(stats) ==
    stats.positive_ratio.hundredths + stats.negative_ratio.hundredths
        + stats.neutral_ratio.hundredths

FeedbackDescribes(stats, t) ==
    stats.total_feedback >= 0 /\ ToBig(stats.total_feedback) = ColumnTotal(t, "total_count")

SortedByTotal(seq) ==
    \A i, j \in DOMAIN seq : i < j => seq[i].total_count >= seq[j].total_count

(* seq is the first `limit` rows of a total_count-descending listing of t *)
IsSample(seq, t, limit) ==
    /\ Len(seq) = Min(limit, Len(t))
    /\ Range(seq) \subseteq Rows(t)
    /\ NoRepeats(seq)
    /\ SortedByTotal(seq)
    /\ \A r \in Rows(t) \ Range(seq) :
          \A i \in DOMAIN seq : r.total_count <= seq[i].total_count

CategoryPct(category, r) ==
    IF category = "positive" THEN r.positif_percentage ELSE r.negatif_percentage

Over70(category, r) == CategoryPct(category, r) > 7000

(* a does not rank below b: percentage descending, then total_count descending *)
NotBelow(category, a, b) ==
    \/ CategoryPct(category, a) > CategoryPct(category, b)
    \/ /\ CategoryPct(category, a) = CategoryPct(category, b)
       /\ a.total_count >= b.total_count

(* seq is the first `limit` rows of the ranking of t's rows over 70 percent *)
IsTopList(seq, t, category, limit) ==
    /\ Len(seq) <= limit
    /\ Range(seq) \subseteq {r \in Rows(t) : Over70(category, r)}
    /\ NoRepeats(seq)
    /\ \A i, j \in DOMAIN seq : i < j => NotBelow(category, seq[i], seq[j])
    /\ \A r \in Rows(t) \ Range(seq) :
          Over70(category, r) =>
              /\ Len(seq) = limit
              /\ \A i \in DOMAIN seq : NotBelow(category, seq[i], r)

RECURSIVE Contains(_, _)
Contains(s, w) ==
    \/ Len(w) <= Len(s) /\ SubSeq(s, 1, Len(w)) = w
    \/ s # << >> /\ Contains(Tail(s), w)

(* the tables the sub-queries k, k + 1, ... ran on are states of history, *)
(* from its i-th on, in this order                                        *)
RECURSIVE SeenInOrder(_, _)
SeenInOrder(k, i) ==
    \/ k > Len(queries)
    \/ \E j \in i..Len(history) :
          history[j] = queries[k].seen /\ SeenInOrder(k + 1, j)

(* every field of stats is the right one for the table state t *)
Describes(stats, t) ==
    /\ stats.total_insights = Len(t)
    /\ FeedbackDescribes(stats, t)
    /\ RatiosDescribe(stats, t)
    /\ IsTopList(stats.top_positive_insights, t, "positive", 5)
    /\ IsTopList(stats.top_negative_insights, t, "negative", 5)
    /\ IsSample(stats.all_insights, t, 20)

---------------------------------------------------------------------------
(* Properties *)

(* C1 (the claim's case of a non-empty table; the empty table is C2's):    *)
(* when every row of the table has zero category counts, so that grand is *)
(* 0, getDashboard answers with a success envelope whose three ratios are *)
(* exactly 0.0, none of them NaN, and without crashing.                   *)
C1_ZeroGrandGivesZeroRatios ==
    (Answered("dashboard") /\ Len(table) > 0 /\ Grand(table) = BigZero) =>
        /\ resp.result = "Ok"
        /\ resp.success
        /\ IsZero(resp.stats.positive_ratio)
        /\ IsZero(resp.stats.negative_ratio)
        /\ IsZero(resp.stats.neutral_ratio)

(* C2: on the empty table the sum queries of getDashboard yield 0, not     *)
(* null, and getDashboard completes with total_insight_count = 0 and      *)
(* total_feedback_count = 0.                                               *)
C2_EmptyTableSumsAreZero ==
    (Answered("dashboard") /\ table = << >>) =>
        /\ \A q \in Range(queries) :
              q.stmt = "sum_total" => SumTotalCount(q.seen) = SqlInt(BigZero)
        /\ resp.result = "Ok"
        /\ resp.success
        /\ resp.stats.total_insights = 0
        /\ resp.stats.total_feedback = 0

(* C3: a request in which a repository call failed ends in a response with *)
(* a 5xx status that carries an envelope with success = false, empty data  *)
(* and a message.                                                          *)
C3_FailureGivesEnvelope ==
    (pc = "done" /\ resp.error \in RepositoryErrors) =>
        /\ resp.result = "Ok"
        /\ resp.status \in 500..599
        /\ ~resp.success
        /\ resp.data = << >>
        /\ resp.message # ""

(* C4: getByWord with an absent word or with the empty word answers        *)
(* success = false, empty data, "Word parameter is required" and status    *)
(* 400, and sends no query to the store.                                   *)
C4_MissingOrEmptyWordIsRejected ==
    (Answered("by_word") /\ (~req.word.some \/ req.word.val = << >>)) =>
        /\ resp.result = "Ok"
        /\ ~resp.success
        /\ resp.data = << >>
        /\ resp.message = "Word parameter is required"
        /\ resp.status = 400
        /\ queries = << >>

(* C5: getByWord with a non-empty word answers success = true with exactly *)
(* the rows whose word contains the search word as a literal substring,    *)
(* each once, by total_count descending; also for words holding % or _.    *)
C5_SearchReturnsLiteralSubstringMatches ==
    (Answered("by_word") /\ req.word.some /\ req.word.val # << >>) =>
        /\ resp.result = "Ok"
        /\ resp.success
        /\ Range(resp.data) = {r \in Rows(table) : Contains(r.word_insight, req.word.val)}
        /\ NoRepeats(resp.data)
        /\ SortedByTotal(resp.data)

(* C6: when grand > 0, getDashboard answers, each ratio is the category    *)
(* sum over grand as a percentage rounded to two decimals, and the three   *)
(* ratios add up to 100.0 within 0.02.                                     *)
C6_RatiosRoundedAndSumTo100 ==
    (Answered("dashboard") /\ Grand(table) # BigZero) =>
        /\ resp.result = "Ok"
        /\ RatiosDescribe(resp.stats, table)
        /\ RatioSum(resp.stats) \in 9998..10002

(* a dashboard over grand > 0 whose rounded ratios do not add up to 100.00 *)
C6_Witness ==
    /\ Answered("dashboard")
    /\ resp.result = "Ok"
    /\ Grand(table) # BigZero
    /\ RatioSum(resp.stats) # 10000

(* C7 (the claim's case of a non-empty table; the empty table is C2's):    *)
(* total_feedback_count is the sum of total_count over all rows, also when *)
(* that sum exceeds the 32-bit signed range, and total_insight_count is    *)
(* the number of rows.                                                     *)
C7_FeedbackTotalIsExactSum ==
    (Answered("dashboard") /\ Len(table) > 0) =>
        /\ resp.result = "Ok"
        /\ resp.stats.total_insights = Len(table)
        /\ FeedbackDescribes(resp.stats, table)

(* C8: the lists of getTopPositive and getTopNegative (limit 10) and the   *)
(* top lists of getDashboard (limit 5) hold only rows over 70 percent in   *)
(* their category, by percentage then total_count descending, at most      *)
(* limit of them, and no qualifying row left out ranks above a listed one. *)
C8_TopListsAreLeadingQualifyingRows ==
    /\ Answered("top_positive") =>
          resp.result = "Ok" /\ resp.success
          /\ IsTopList(resp.data, table, "positive", 10)
    /\ Answered("top_negative") =>
          resp.result = "Ok" /\ resp.success
          /\ IsTopList(resp.data, table, "negative", 10)
    /\ (Done("dashboard") /\ resp.result = "Ok") =>
          /\ IsTopList(resp.stats.top_positive_insights, table, "positive", 5)
          /\ IsTopList(resp.stats.top_negative_insights, table, "negative", 5)

(* getTopNegative returned ten rows and had to leave a qualifying row out *)
C8_Witness ==
    /\ Answered("top_negative")
    /\ Len(resp.data) = 10
    /\ \E r \in Rows(table) \ Range(resp.data) : Over70("negative", r)

(* C9: getSummary answers success = true with every row of the table once, *)
(* by total_count descending; on a non-empty table getDashboard answers    *)
(* and its sample_all is the first min(20, row count) rows of a            *)
(* total_count-descending listing of the table.                            *)
C9_SummaryListsAllRowsByTotal ==
    /\ Answered("summary") =>
          /\ resp.result = "Ok" /\ resp.success
          /\ IsSample(resp.data, table, Len(table))
          /\ Range(resp.data) = Rows(table)
    /\ (Answered("dashboard") /\ Len(table) > 0) =>
          /\ resp.result = "Ok" /\ resp.success
          /\ IsSample(resp.stats.all_insights, table, 20)

(* a dashboard over more than twenty rows, some equal in total_count, its  *)
(* sample cut to twenty                                                   *)
C9_Witness ==
    /\ Answered("dashboard")
    /\ resp.result = "Ok"
    /\ Len(table) > 20
    /\ Len(resp.stats.all_insights) = 20
    /\ \E i, j \in DOMAIN resp.stats.all_insights :
          /\ i < j
          /\ resp.stats.all_insights[i].total_count
                 = resp.stats.all_insights[j].total_count

===========================================================================
